---- MODULE Spec2Model ----
(***************************************************************************)
(* A model of vm/src/obj/objbytes.rs: the bytes object (PyBytes), its      *)
(* comparison dispatch, and the bytes iterator (PyBytesIterator).          *)
(*                                                                         *)
(* The object heap is a sequence of objects; a PyObjectRef is an index in  *)
(* it.  Every method of the source is one action that records what it      *)
(* returned in `result`; `trace` and `constructed` are history variables.  *)
(***************************************************************************)
EXTENDS Integers, Sequences, FiniteSets, TLC

VARIABLES
    heap,         \* the objects: PyBytes, PyBytesIterator and objects of other classes
    result,       \* the last method call: its name, its arguments, what it returned
    trace,        \* per object: what each completed __next__ on it returned, in order
    constructed,  \* per object: what it was constructed from (history)
    threads,      \* per thread: where it is inside a step-wise __next__, and its locals
    overlapped    \* the iterators on which two __next__ calls were in flight at once

vars == <<heap, result, trace, constructed, threads, overlapped>>

----------------------------------------------------------------------------
(* Bounds *)

MaxLen == 2      \* longest byte sequence
MaxIters == 2    \* most iterators created
MaxExtra == 2    \* most __next__ calls made on an iterator once it is exhausted

\* u8 values used: the two ends of the range (0 and 255 order differently as i8).
ByteVals == {0, 255}

Threads == {"t1", "t2"}

RECURSIVE SeqsOfLen(_)
SeqsOfLen(n) ==
    IF n = 0 THEN {<<>>}
    ELSE {Append(s, b) : s \in SeqsOfLen(n - 1), b \in ByteVals}

ByteSeqs == UNION {SeqsOfLen(n) : n \in 0..MaxLen}

----------------------------------------------------------------------------
(* Values returned to the host: PyResult is Ok(value) or Err(exception). *)

Value(kind, n, s) == [kind |-> kind, n |-> n, s |-> s]

Ok(v) == [ok |-> TRUE, value |-> v]
Err(v) == [ok |-> FALSE, value |-> v]

new_bool(b) == Value("bool", IF b THEN 1 ELSE 0, <<>>)
new_int(n) == Value("int", n, <<>>)
new_u8(n) == Value("u8", n, <<>>)
new_str(s) == Value("str", 0, s)
new_ref(r) == Value("ref", r, <<>>)
not_implemented == Value("NotImplemented", 0, <<>>)
new_stop_iteration == Value("StopIteration", 0, <<>>)
index_panic == Value("panic: index out of bounds", 0, <<>>)
None == Value("None", 0, <<>>)

Call(op, self, other, ret) == [op |-> op, self |-> self, other |-> other, ret |-> ret]

----------------------------------------------------------------------------
(* Objects *)

PyByteInner(elements) == [elements |-> elements]

PyBytes_new(elements) == [payload |-> "PyBytes", inner |-> PyByteInner(elements)]

PyBytesIterator(position, bytes) ==
    [payload |-> "PyBytesIterator", position |-> position, bytes |-> bytes]

\* Objects of other classes, as the operand of a comparison.
PyByteArray(elements) == [payload |-> "PyByteArray", inner |-> PyByteInner(elements)]
PyInt(n) == [payload |-> "PyInt", value |-> n]
PyString(s) == [payload |-> "PyString", chars |-> s]
PyNone == [payload |-> "PyNone"]

Refs == 1..Len(heap)
BytesRefs == {r \in Refs : heap[r].payload = "PyBytes"}
IterRefs == {r \in Refs : heap[r].payload = "PyBytesIterator"}

\* match_class!(other, bytes @ PyBytes => ..., _ => ...): the payload downcast.
is_PyBytes(obj) == obj.payload = "PyBytes"

\* Deref for PyBytes: the byte slice.
deref(bytes) == bytes.inner.elements

\* The byte sequence an iterator walks.
Source(it) == deref(heap[heap[it].bytes])

----------------------------------------------------------------------------
(* The payload collaborator, PyByteInner (objbyteinner.rs): length, hash,     *)
(* representation and the lexicographic comparisons of raw byte sequences.    *)

inner_len(inner) == Len(inner.elements)

\* Ordering of two byte sequences: -1, 0 or 1.  Bytes compare as unsigned
\* integers; the first difference decides; a proper prefix is the smaller.
RECURSIVE cmp_elements(_, _)
cmp_elements(a, b) ==
    IF a = <<>> /\ b = <<>> THEN 0
    ELSE IF a = <<>> THEN -1
    ELSE IF b = <<>> THEN 1
    ELSE IF Head(a) < Head(b) THEN -1
    ELSE IF Head(a) > Head(b) THEN 1
    ELSE cmp_elements(Tail(a), Tail(b))

inner_eq(inner, other) == Ok(new_bool(cmp_elements(inner.elements, other.elements) = 0))
inner_ge(inner, other) == Ok(new_bool(cmp_elements(inner.elements, other.elements) >= 0))
inner_le(inner, other) == Ok(new_bool(cmp_elements(inner.elements, other.elements) <= 0))
inner_gt(inner, other) == Ok(new_bool(cmp_elements(inner.elements, other.elements) > 0))
inner_lt(inner, other) == Ok(new_bool(cmp_elements(inner.elements, other.elements) < 0))

HashModulus == 65536

RECURSIVE hash_elements(_, _)
hash_elements(h, elements) ==
    IF elements = <<>> THEN h
    ELSE hash_elements((h * 31 + Head(elements) + 1) % HashModulus, Tail(elements))

inner_hash(inner) == hash_elements(7, inner.elements)

HexDigits == <<"0", "1", "2", "3", "4", "5", "6", "7",
               "8", "9", "a", "b", "c", "d", "e", "f">>

\* The ASCII characters 32 to 126 that a representation shows as themselves;
\* "" marks the quote characters and the backslash, which are escaped.
Printable ==
    <<
       " ", "!", "", "#", "$", "%", "&", "", "(", ")", "*", "+", ",", "-", ".", "/",
       "0", "1", "2", "3", "4", "5", "6", "7", "8", "9", ":", ";", "<", "=", ">", "?",
       "@", "A", "B", "C", "D", "E", "F", "G", "H", "I", "J", "K", "L", "M", "N", "O",
       "P", "Q", "R", "S", "T", "U", "V", "W", "X", "Y", "Z", "[", "", "]", "^", "_",
       "", "a", "b", "c", "d", "e", "f", "g", "h", "i", "j", "k", "l", "m", "n", "o",
       "p", "q", "r", "s", "t", "u", "v", "w", "x", "y", "z", "{", "|", "}", "~"
    >>

is_printable(b) == b >= 32 /\ b <= 126 /\ Printable[b - 31] # ""

\* One byte of a representation: itself when printable, \xNN otherwise.
escape_byte(b) ==
    IF is_printable(b) THEN <<Printable[b - 31]>>
    ELSE <<"\\x", HexDigits[(b \div 16) + 1], HexDigits[(b % 16) + 1]>>

RECURSIVE escape_elements(_)
escape_elements(elements) ==
    IF elements = <<>> THEN <<>>
    ELSE escape_byte(Head(elements)) \o escape_elements(Tail(elements))

inner_repr(inner) == escape_elements(inner.elements)

----------------------------------------------------------------------------
(* Initial states *)

Created(elements, bytes) == [elements |-> elements, bytes |-> bytes]

NoCall == Call("none", 0, 0, Ok(None))

Idle == [pc |-> "idle", self |-> 0, ret |-> 0, position |-> 0]

\* Operands of other classes: a bytearray, an int, a str, None.
OtherObjects ==
    {PyByteArray(s) : s \in ByteSeqs} \cup {PyInt(n) : n \in ByteVals}
        \cup {PyString(<<"a">>), PyNone}

\* One bytes object, and a bytearray holding the same bytes.
Init ==
    \E s \in ByteSeqs :
        /\ heap = <<PyBytes_new(s), PyByteArray(s)>>
        /\ constructed = <<Created(s, 0), Created(s, 0)>>
        /\ trace = <<<<>>, <<>>>>
        /\ result = NoCall
        /\ threads = [t \in Threads |-> Idle]
        /\ overlapped = {}

\* One bytes object and an operand: another bytes object, or an object of
\* another class.
InitCmp ==
    \E s \in ByteSeqs, o \in {PyBytes_new(e) : e \in ByteSeqs} \cup OtherObjects :
        /\ heap = <<PyBytes_new(s), o>>
        /\ constructed =
               <<Created(s, 0),
                 Created(IF o.payload \in {"PyBytes", "PyByteArray"}
                         THEN o.inner.elements ELSE <<>>, 0)>>
        /\ trace = <<<<>>, <<>>>>
        /\ result = NoCall
        /\ threads = [t \in Threads |-> Idle]
        /\ overlapped = {}

\* One bytes object and one iterator over it, as iter() returns it.
InitRace ==
    \E s \in ByteSeqs :
        /\ heap = <<PyBytes_new(s), PyBytesIterator(0, 1)>>
        /\ constructed = <<Created(s, 0), Created(<<>>, 1)>>
        /\ trace = <<<<>>, <<>>>>
        /\ result = NoCall
        /\ threads = [t \in Threads |-> Idle]
        /\ overlapped = {}

----------------------------------------------------------------------------
(* PyBytesRef: the methods of bytes *)

\* A method that only returns a value.
Returns(call) ==
    /\ result' = call
    /\ UNCHANGED <<heap, trace, constructed, threads, overlapped>>

repr(self) ==
    /\ self \in BytesRefs
    /\ Returns(Call("repr", self, 0,
                    Ok(new_str(<<"b'">> \o inner_repr(heap[self].inner) \o <<"'">>))))

len(self) ==
    /\ self \in BytesRefs
    /\ Returns(Call("len", self, 0, Ok(new_int(inner_len(heap[self].inner)))))

\* Mutant: an operand of another class compares unequal.
eq_false_for_others(self, other) ==
    /\ self \in BytesRefs /\ other \in Refs
    /\ Returns(Call("eq", self, other,
                    IF is_PyBytes(heap[other])
                    THEN inner_eq(heap[self].inner, heap[other].inner)
                    ELSE Ok(new_bool(FALSE))))

eq(self, other) ==
    /\ self \in BytesRefs /\ other \in Refs
    /\ Returns(Call("eq", self, other,
                    IF is_PyBytes(heap[other])
                    THEN inner_eq(heap[self].inner, heap[other].inner)
                    ELSE Ok(not_implemented)))

ge(self, other) ==
    /\ self \in BytesRefs /\ other \in Refs
    /\ Returns(Call("ge", self, other,
                    IF is_PyBytes(heap[other])
                    THEN inner_ge(heap[self].inner, heap[other].inner)
                    ELSE Ok(not_implemented)))

le(self, other) ==
    /\ self \in BytesRefs /\ other \in Refs
    /\ Returns(Call("le", self, other,
                    IF is_PyBytes(heap[other])
                    THEN inner_le(heap[self].inner, heap[other].inner)
                    ELSE Ok(not_implemented)))

gt(self, other) ==
    /\ self \in BytesRefs /\ other \in Refs
    /\ Returns(Call("gt", self, other,
                    IF is_PyBytes(heap[other])
                    THEN inner_gt(heap[self].inner, heap[other].inner)
                    ELSE Ok(not_implemented)))

\* Mutant: __lt__ delegates to the collaborator's le.
lt_as_le(self, other) ==
    /\ self \in BytesRefs /\ other \in Refs
    /\ Returns(Call("lt", self, other,
                    IF is_PyBytes(heap[other])
                    THEN inner_le(heap[self].inner, heap[other].inner)
                    ELSE Ok(not_implemented)))

lt(self, other) ==
    /\ self \in BytesRefs /\ other \in Refs
    /\ Returns(Call("lt", self, other,
                    IF is_PyBytes(heap[other])
                    THEN inner_lt(heap[self].inner, heap[other].inner)
                    ELSE Ok(not_implemented)))

hash(self) ==
    /\ self \in BytesRefs
    /\ Returns(Call("hash", self, 0, Ok(new_int(inner_hash(heap[self].inner)))))

\* Mutant: an iterator that already walks self is handed out again.
iter_reuse(self) ==
    /\ self \in BytesRefs
    /\ Cardinality(IterRefs) < MaxIters
    /\ LET existing == {it \in IterRefs : heap[it].bytes = self}
       IN  IF existing = {}
           THEN /\ heap' = Append(heap, PyBytesIterator(0, self))
                /\ constructed' = Append(constructed, Created(<<>>, self))
                /\ trace' = Append(trace, <<>>)
                /\ result' = Call("iter", self, 0, Ok(new_ref(Len(heap) + 1)))
           ELSE /\ result' = Call("iter", self, 0,
                                  Ok(new_ref(CHOOSE it \in existing : TRUE)))
                /\ UNCHANGED <<heap, constructed, trace>>
    /\ UNCHANGED <<threads, overlapped>>

\* A new iterator object at position 0 over self.
iter(self) ==
    /\ self \in BytesRefs
    /\ Cardinality(IterRefs) < MaxIters
    /\ heap' = Append(heap, PyBytesIterator(0, self))
    /\ constructed' = Append(constructed, Created(<<>>, self))
    /\ trace' = Append(trace, <<>>)
    /\ result' = Call("iter", self, 0, Ok(new_ref(Len(heap) + 1)))
    /\ UNCHANGED <<threads, overlapped>>

----------------------------------------------------------------------------
(* PyBytesIteratorRef: the methods of the bytes iterator *)

\* The model stops calling __next__ on an iterator that has signalled
\* exhaustion MaxExtra times.
MayCall(self) == Len(trace[self]) < Len(Source(self)) + MaxExtra

\* Mutant: the element is returned and the position is not advanced.
next_noadvance(self) ==
    /\ self \in IterRefs
    /\ MayCall(self)
    /\ LET position == heap[self].position
           bytes == heap[heap[self].bytes]
       IN  IF position < inner_len(bytes.inner)
           THEN LET ret == deref(bytes)[position + 1]
                IN  /\ heap' = heap
                    /\ result' = Call("next", self, 0, Ok(new_u8(ret)))
                    /\ trace' = [trace EXCEPT ![self] = Append(@, Ok(new_u8(ret)))]
           ELSE /\ heap' = heap
                /\ result' = Call("next", self, 0, Err(new_stop_iteration))
                /\ trace' = [trace EXCEPT ![self] = Append(@, Err(new_stop_iteration))]
    /\ UNCHANGED <<constructed, threads, overlapped>>

\* Mutant: the position is advanced on the exhausted path too.
next_overrun(self) ==
    /\ self \in IterRefs
    /\ MayCall(self)
    /\ LET position == heap[self].position
           bytes == heap[heap[self].bytes]
       IN  IF position < inner_len(bytes.inner)
           THEN LET ret == deref(bytes)[position + 1]
                IN  /\ heap' = [heap EXCEPT ![self].position = position + 1]
                    /\ result' = Call("next", self, 0, Ok(new_u8(ret)))
                    /\ trace' = [trace EXCEPT ![self] = Append(@, Ok(new_u8(ret)))]
           ELSE /\ heap' = [heap EXCEPT ![self].position = position + 1]
                /\ result' = Call("next", self, 0, Err(new_stop_iteration))
                /\ trace' = [trace EXCEPT ![self] = Append(@, Err(new_stop_iteration))]
    /\ UNCHANGED <<constructed, threads, overlapped>>

\* Mutant: signalling exhaustion rewinds the iterator.
next_restart(self) ==
    /\ self \in IterRefs
    /\ MayCall(self)
    /\ LET position == heap[self].position
           bytes == heap[heap[self].bytes]
       IN  IF position < inner_len(bytes.inner)
           THEN LET ret == deref(bytes)[position + 1]
                IN  /\ heap' = [heap EXCEPT ![self].position = position + 1]
                    /\ result' = Call("next", self, 0, Ok(new_u8(ret)))
                    /\ trace' = [trace EXCEPT ![self] = Append(@, Ok(new_u8(ret)))]
           ELSE /\ heap' = [heap EXCEPT ![self].position = 0]
                /\ result' = Call("next", self, 0, Err(new_stop_iteration))
                /\ trace' = [trace EXCEPT ![self] = Append(@, Err(new_stop_iteration))]
    /\ UNCHANGED <<constructed, threads, overlapped>>

\* Mutant: one cursor per bytes object, shared by all the iterators over it.
next_shared_cursor(self) ==
    /\ self \in IterRefs
    /\ MayCall(self)
    /\ LET position == heap[self].position
           bytes == heap[heap[self].bytes]
       IN  IF position < inner_len(bytes.inner)
           THEN LET ret == deref(bytes)[position + 1]
                IN  /\ heap' = [r \in Refs |->
                                  IF r \in IterRefs /\ heap[r].bytes = heap[self].bytes
                                  THEN [heap[r] EXCEPT !.position = position + 1]
                                  ELSE heap[r]]
                    /\ result' = Call("next", self, 0, Ok(new_u8(ret)))
                    /\ trace' = [trace EXCEPT ![self] = Append(@, Ok(new_u8(ret)))]
           ELSE /\ heap' = heap
                /\ result' = Call("next", self, 0, Err(new_stop_iteration))
                /\ trace' = [trace EXCEPT ![self] = Append(@, Err(new_stop_iteration))]
    /\ UNCHANGED <<constructed, threads, overlapped>>

\* Mutant: the iterator takes the bytes it returns out of the bytes object.
next_consume(self) ==
    /\ self \in IterRefs
    /\ MayCall(self)
    /\ LET bytes == heap[heap[self].bytes]
       IN  IF 0 < inner_len(bytes.inner)
           THEN LET ret == deref(bytes)[1]
                IN  /\ heap' = [heap EXCEPT
                                  ![heap[self].bytes].inner.elements = Tail(@),
                                  ![self].position = 0]
                    /\ result' = Call("next", self, 0, Ok(new_u8(ret)))
                    /\ trace' = [trace EXCEPT ![self] = Append(@, Ok(new_u8(ret)))]
           ELSE /\ heap' = heap
                /\ result' = Call("next", self, 0, Err(new_stop_iteration))
                /\ trace' = [trace EXCEPT ![self] = Append(@, Err(new_stop_iteration))]
    /\ UNCHANGED <<constructed, threads, overlapped>>

next(self) ==
    /\ self \in IterRefs
    /\ MayCall(self)
    /\ LET position == heap[self].position
           bytes == heap[heap[self].bytes]
       IN  IF position < inner_len(bytes.inner)
           THEN LET ret == deref(bytes)[position + 1]
                IN  /\ heap' = [heap EXCEPT ![self].position = position + 1]
                    /\ result' = Call("next", self, 0, Ok(new_u8(ret)))
                    /\ trace' = [trace EXCEPT ![self] = Append(@, Ok(new_u8(ret)))]
           ELSE /\ heap' = heap
                /\ result' = Call("next", self, 0, Err(new_stop_iteration))
                /\ trace' = [trace EXCEPT ![self] = Append(@, Err(new_stop_iteration))]
    /\ UNCHANGED <<constructed, threads, overlapped>>

\* Mutant: __iter__ of the iterator rewinds it.
PyBytesIteratorRef_iter_rewind(self) ==
    /\ self \in IterRefs
    /\ heap' = [heap EXCEPT ![self].position = 0]
    /\ result' = Call("iterator_iter", self, 0, Ok(new_ref(self)))
    /\ UNCHANGED <<trace, constructed, threads, overlapped>>

\* __iter__ of the iterator: the iterator itself.
PyBytesIteratorRef_iter(self) ==
    /\ self \in IterRefs
    /\ Returns(Call("iterator_iter", self, 0, Ok(new_ref(self))))

----------------------------------------------------------------------------
(* __next__ step by step: Cell::get and Cell::set are separate, unsynchronized *)
(* accesses, so calls made by two threads on one iterator interleave between   *)
(* the steps below.                                                            *)

InFlight(self) == {u \in Threads : threads[u].pc # "idle" /\ threads[u].self = self}

MayEnter(self) ==
    Len(trace[self]) + Cardinality(InFlight(self)) < Len(Source(self)) + MaxExtra

\* if self.position.get() < self.bytes.inner.len()
next_check(t, self) ==
    /\ threads[t].pc = "idle"
    /\ self \in IterRefs
    /\ MayEnter(self)
    /\ overlapped' = IF InFlight(self) # {} THEN overlapped \cup {self} ELSE overlapped
    /\ IF heap[self].position < inner_len(heap[heap[self].bytes].inner)
       THEN /\ threads' = [threads EXCEPT ![t] = [Idle EXCEPT !.pc = "index", !.self = self]]
            /\ UNCHANGED <<result, trace>>
       ELSE /\ result' = Call("next", self, 0, Err(new_stop_iteration))
            /\ trace' = [trace EXCEPT ![self] = Append(@, Err(new_stop_iteration))]
            /\ UNCHANGED threads
    /\ UNCHANGED <<heap, constructed>>

\* let ret = self.bytes[self.position.get()]: slice indexing checks the bound.
next_index(t) ==
    /\ threads[t].pc = "index"
    /\ LET self == threads[t].self
           position == heap[self].position
           bytes == heap[heap[self].bytes]
       IN  IF position < Len(deref(bytes))
           THEN /\ threads' = [threads EXCEPT ![t].pc = "get",
                                              ![t].ret = deref(bytes)[position + 1]]
                /\ UNCHANGED <<result, trace>>
           ELSE /\ threads' = [threads EXCEPT ![t] = Idle]
                /\ result' = Call("next", self, 0, Err(index_panic))
                /\ trace' = [trace EXCEPT ![self] = Append(@, Err(index_panic))]
    /\ UNCHANGED <<heap, constructed, overlapped>>

\* self.position.get() + 1, the argument of set
next_get(t) ==
    /\ threads[t].pc = "get"
    /\ threads' = [threads EXCEPT ![t].pc = "set",
                                  ![t].position = heap[threads[t].self].position]
    /\ UNCHANGED <<heap, result, trace, constructed, overlapped>>

\* Mutant: the position read is written back as it is.
next_set_noadvance(t) ==
    /\ threads[t].pc = "set"
    /\ LET self == threads[t].self
       IN  /\ heap' = [heap EXCEPT ![self].position = threads[t].position]
           /\ result' = Call("next", self, 0, Ok(new_u8(threads[t].ret)))
           /\ trace' = [trace EXCEPT ![self] = Append(@, Ok(new_u8(threads[t].ret)))]
    /\ threads' = [threads EXCEPT ![t] = Idle]
    /\ UNCHANGED <<constructed, overlapped>>

\* self.position.set(...); Ok(ret)
next_set(t) ==
    /\ threads[t].pc = "set"
    /\ LET self == threads[t].self
       IN  /\ heap' = [heap EXCEPT ![self].position = threads[t].position + 1]
           /\ result' = Call("next", self, 0, Ok(new_u8(threads[t].ret)))
           /\ trace' = [trace EXCEPT ![self] = Append(@, Ok(new_u8(threads[t].ret)))]
    /\ threads' = [threads EXCEPT ![t] = Idle]
    /\ UNCHANGED <<constructed, overlapped>>

----------------------------------------------------------------------------
(* Specifications *)

Next ==
    \/ \E self \in Refs : repr(self)
    \/ \E self \in Refs : len(self)
    \/ \E self \in Refs, other \in Refs : eq(self, other)
    \/ \E self \in Refs, other \in Refs : ge(self, other)
    \/ \E self \in Refs, other \in Refs : le(self, other)
    \/ \E self \in Refs, other \in Refs : gt(self, other)
    \/ \E self \in Refs, other \in Refs : lt(self, other)
    \/ \E self \in Refs : hash(self)
    \/ \E self \in Refs : iter(self)
    \/ \E self \in Refs : next(self)
    \/ \E self \in Refs : PyBytesIteratorRef_iter(self)

Spec == Init /\ [][Next]_vars

NextCmp ==
    \/ \E self \in Refs : repr(self)
    \/ \E self \in Refs : len(self)
    \/ \E self \in Refs, other \in Refs : eq(self, other)
    \/ \E self \in Refs, other \in Refs : ge(self, other)
    \/ \E self \in Refs, other \in Refs : le(self, other)
    \/ \E self \in Refs, other \in Refs : gt(self, other)
    \/ \E self \in Refs, other \in Refs : lt(self, other)
    \/ \E self \in Refs : hash(self)

SpecCmp == InitCmp /\ [][NextCmp]_vars

NextRace ==
    \/ \E t \in Threads, self \in Refs : next_check(t, self)
    \/ \E t \in Threads : next_index(t)
    \/ \E t \in Threads : next_get(t)
    \/ \E t \in Threads : next_set(t)

SpecRace == InitRace /\ [][NextRace]_vars

----------------------------------------------------------------------------
(* Properties *)

\* The bytes an iterator was created over, as they were at construction.
SourceAtCreation(it) == constructed[constructed[it].bytes].elements

\* What the k-th __next__ on an iterator over s returns.
Expected(s, k) ==
    IF k <= Len(s) THEN Ok(new_u8(s[k])) ELSE Err(new_stop_iteration)

OkCount(tr) == Cardinality({k \in 1..Len(tr) : tr[k].ok})

Stops(tr) == Cardinality({k \in 1..Len(tr) : tr[k] = Err(new_stop_iteration)})

\* C1: on an iterator over a sequence of length L, the k-th __next__ returns
\* the element at index k-1 for k <= L, and the (L+1)-th call and every later
\* call signal StopIteration; for L = 0 the first call does.
IteratorProtocol ==
    \A it \in IterRefs :
        \A k \in 1..Len(trace[it]) :
            trace[it][k] = Expected(SourceAtCreation(it), k)

\* An iterator over two different bytes, called twice after the last element.
IteratorProtocolWitness ==
    \E it \in IterRefs :
        LET s == SourceAtCreation(it)
        IN  /\ Len(s) >= 2
            /\ s[1] # s[2]
            /\ Len(trace[it]) = Len(s) + 2

\* C2: the position of every iterator lies between 0 and the length of its
\* source.
PositionInBounds ==
    \A it \in IterRefs :
        /\ heap[it].position >= 0
        /\ heap[it].position <= Len(Source(it))

\* An iterator at the end of a non-empty source, after __next__ was called
\* on it at the end and __iter__ was called on it.
PositionInBoundsWitness ==
    \E it \in IterRefs :
        /\ Len(Source(it)) >= 1
        /\ heap[it].position = Len(Source(it))
        /\ Stops(trace[it]) >= 1
        /\ result = Call("iterator_iter", it, 0, Ok(new_ref(it)))

CmpOps == {"eq", "ge", "le", "gt", "lt"}

\* C3: each of the five comparisons with an operand that is not a bytes
\* object returns Ok(NotImplemented): no boolean, no error.
NonBytesNotImplemented ==
    (result.op \in CmpOps /\ ~is_PyBytes(heap[result.other]))
        => result.ret = Ok(not_implemented)

\* __eq__ with a bytearray that holds the same, non-empty, bytes.
NonBytesNotImplementedWitness ==
    /\ result.op = "eq"
    /\ heap[result.other].payload = "PyByteArray"
    /\ heap[result.other].inner.elements = deref(heap[result.self])
    /\ deref(heap[result.self]) # <<>>

\* C4: two iterators over the same bytes object do not interfere: each one's
\* position counts its own successful __next__ calls only, and each one has
\* returned the source's elements in order, and the whole source before it
\* signalled StopIteration.
IndependentIterators ==
    \A a \in IterRefs, b \in IterRefs :
        (a # b /\ heap[a].bytes = heap[b].bytes) =>
            /\ heap[a].position = OkCount(trace[a])
            /\ \A k \in 1..Len(trace[a]) :
                   trace[a][k].ok => (k <= Len(Source(a)) /\ trace[a][k] = Ok(new_u8(Source(a)[k])))
            /\ Stops(trace[a]) > 0 => OkCount(trace[a]) = Len(Source(a))

\* Two iterators over the same bytes: one exhausted, one part of the way.
IndependentIteratorsWitness ==
    \E a \in IterRefs, b \in IterRefs :
        /\ a # b
        /\ heap[a].bytes = heap[b].bytes
        /\ Len(Source(a)) >= 2
        /\ Stops(trace[a]) = 1
        /\ heap[b].position = 1

\* C5: __iter__ of an iterator returns that iterator and changes nothing:
\* not its position, not its source.
GetSelfChangesNothing ==
    [][result'.op = "iterator_iter" =>
          /\ result'.ret = Ok(new_ref(result'.self))
          /\ heap' = heap
          /\ trace' = trace
          /\ constructed' = constructed]_vars

\* __iter__ was called on an iterator that has returned some of its source.
GetSelfChangesNothingWitness ==
    /\ result.op = "iterator_iter"
    /\ heap[result.self].position >= 1
    /\ heap[result.self].position < Len(Source(result.self))

\* C6: __next__ on an iterator whose position is the length of its source
\* signals StopIteration and changes no object.
ExhaustedNextChangesNothing ==
    [][\A it \in IterRefs :
          (Len(trace'[it]) > Len(trace[it]) /\ heap[it].position = Len(Source(it))) =>
              /\ trace'[it] = Append(trace[it], Err(new_stop_iteration))
              /\ result' = Call("next", it, 0, Err(new_stop_iteration))
              /\ heap' = heap
              /\ constructed' = constructed]_vars

\* The last call was a second __next__ on an exhausted iterator.
ExhaustedNextChangesNothingWitness ==
    /\ result.op = "next"
    /\ ~result.ret.ok
    /\ Stops(trace[result.self]) = 2
    /\ Len(Source(result.self)) >= 1
    /\ heap[result.self].position = Len(Source(result.self))

\* C7: __iter__ of a bytes object returns a new iterator object at position 0
\* over that bytes object, and leaves every existing object as it was.
IterReturnsFreshIterator ==
    [][(result'.op = "iter" /\ result' # result) =>
          /\ is_PyBytes(heap[result'.self])
          /\ result'.ret = Ok(new_ref(Len(heap) + 1))
          /\ heap' = Append(heap, PyBytesIterator(0, result'.self))
          /\ trace' = Append(trace, <<>>)]_vars

\* __iter__ was called while an exhausted iterator over the same bytes existed.
IterReturnsFreshIteratorWitness ==
    /\ result.op = "iter"
    /\ result.ret.ok
    /\ heap[result.ret.value.n].position = 0
    /\ \E it \in IterRefs :
           /\ it # result.ret.value.n
           /\ heap[it].bytes = result.self
           /\ Len(Source(it)) >= 1
           /\ Stops(trace[it]) >= 1

\* C8: a bytes object holds the elements it was constructed with, and an
\* iterator refers to the bytes object it was created from.
BytesImmutable ==
    /\ \A r \in BytesRefs : deref(heap[r]) = constructed[r].elements
    /\ \A it \in IterRefs :
           /\ heap[it].bytes = constructed[it].bytes
           /\ heap[it].bytes \in BytesRefs

\* __repr__ was called on a non-empty bytes object that an iterator has
\* walked to the end.
BytesImmutableWitness ==
    /\ result.op = "repr"
    /\ Len(deref(heap[result.self])) >= 2
    /\ \E it \in IterRefs :
           /\ heap[it].bytes = result.self
           /\ Stops(trace[it]) >= 1

ElementwiseEqual(a, b) ==
    /\ Len(a) = Len(b)
    /\ \A i \in 1..Len(a) : a[i] = b[i]

\* a is a proper prefix of b, or a has the smaller byte where they first differ.
LexLess(a, b) ==
    \/ /\ Len(a) < Len(b)
       /\ \A i \in 1..Len(a) : a[i] = b[i]
    \/ \E k \in 1..Len(a) :
           /\ k <= Len(b)
           /\ a[k] < b[k]
           /\ \A i \in 1..(k - 1) : a[i] = b[i]

\* C9: between two bytes objects each comparison returns a boolean: __eq__
\* element-wise equality, __lt__ the strict lexicographic order of unsigned
\* bytes, __gt__ its converse, __ge__ and __le__ the disjunctions with
\* equality; and exactly one of equal, less, greater holds of a pair.
BytesComparisons ==
    (result.op \in CmpOps /\ is_PyBytes(heap[result.other])) =>
        LET a == deref(heap[result.self])
            b == deref(heap[result.other])
            equal == ElementwiseEqual(a, b)
            less == LexLess(a, b)
            greater == LexLess(b, a)
        IN  /\ (equal /\ ~less /\ ~greater) \/ (~equal /\ less /\ ~greater)
                   \/ (~equal /\ ~less /\ greater)
            /\ result.op = "eq" => result.ret = Ok(new_bool(equal))
            /\ result.op = "lt" => result.ret = Ok(new_bool(less))
            /\ result.op = "gt" => result.ret = Ok(new_bool(greater))
            /\ result.op = "ge" => result.ret = Ok(new_bool(greater \/ equal))
            /\ result.op = "le" => result.ret = Ok(new_bool(less \/ equal))

\* __lt__ of two equal bytes objects of two elements.
BytesComparisonsWitness ==
    /\ result.op = "lt"
    /\ result.self # result.other
    /\ is_PyBytes(heap[result.other])
    /\ Len(deref(heap[result.self])) = 2
    /\ deref(heap[result.self]) = deref(heap[result.other])
    /\ result.ret = Ok(new_bool(FALSE))

\* C10: as long as no two __next__ calls on an iterator were in flight at
\* once, the calls on it return each element once and in order and then
\* StopIteration.  (Calls that interleave can return one element twice while
\* the position advances once: RaceDuplicatesElement.)
SerializedNextExact ==
    \A it \in IterRefs \ overlapped :
        \A k \in 1..Len(trace[it]) :
            trace[it][k] = Expected(Source(it), k)

\* Two interleaved calls have both returned the first element, and the
\* position is 1.
RaceDuplicatesElement ==
    \E it \in overlapped :
        /\ \A u \in Threads : threads[u].pc = "idle"
        /\ Len(Source(it)) >= 2
        /\ Source(it)[1] # Source(it)[2]
        /\ trace[it] = <<Ok(new_u8(Source(it)[1])), Ok(new_u8(Source(it)[1]))>>
        /\ heap[it].position = 1

====
